---------------------------- MODULE Spec2Model ----------------------------
(***************************************************************************)
(* The iteration loop of autonomous_paint_agent.py: one session of         *)
(* generate -> parse -> map arguments -> invoke tool -> accumulate, with   *)
(* the directive parser, the argument mapper and the result normaliser     *)
(* computed on character sequences as the Python code computes them.       *)
(* A text is a sequence of one-character strings.                          *)
(***************************************************************************)
EXTENDS Integers, Sequences, FiniteSets, TLC

(* ------------------------------ literals ------------------------------ *)

FUNCTION_CALL_MARK ==
    <<"F", "U", "N", "C", "T", "I", "O", "N", "_", "C", "A", "L", "L", ":">>

FINAL_ANSWER_MARK ==
    <<"F", "I", "N", "A", "L", "_", "A", "N", "S", "W", "E", "R", ":">>

ascii_exp_sum ==
    <<"a", "s", "c", "i", "i", "_", "e", "x", "p", "_", "s", "u", "m">>

open_paint ==
    <<"o", "p", "e", "n", "_", "p", "a", "i", "n", "t">>

draw_rectangle ==
    <<"d", "r", "a", "w", "_", "r", "e", "c", "t", "a", "n", "g", "l", "e">>

add_text_in_paint ==
    <<"a", "d", "d", "_", "t", "e", "x", "t", "_", "i", "n", "_", "p", "a",
    "i", "n", "t">>

save_paint_file ==
    <<"s", "a", "v", "e", "_", "p", "a", "i", "n", "t", "_", "f", "i", "l",
    "e">>

email_ascii_image ==
    <<"e", "m", "a", "i", "l", "_", "a", "s", "c", "i", "i", "_", "i", "m",
    "a", "g", "e">>

send_email_with_attachment ==
    <<"s", "e", "n", "d", "_", "e", "m", "a", "i", "l", "_", "w", "i", "t",
    "h", "_", "a", "t", "t", "a", "c", "h", "m", "e", "n", "t">>

DefaultUserInput ==
    <<"H", "e", "l", "l", "o", " ", "W", "o", "r", "l", "d">>

DefaultSubject ==
    <<"A", "S", "C", "I", "I", " ", "C", "a", "l", "c", "u", "l", "a", "t",
    "i", "o", "n", " ", "R", "e", "s", "u", "l", "t">>

DefaultBodyPrefix ==
    <<"H", "e", "r", "e", " ", "i", "s", " ", "t", "h", "e", " ", "A", "S",
    "C", "I", "I", " ", "c", "a", "l", "c", "u", "l", "a", "t", "i", "o",
    "n", " ", "r", "e", "s", "u", "l", "t", " ", "f", "o", "r", " ", "'">>

DefaultAttachment ==
    <<"p", "a", "i", "n", "t", "_", "v", "i", "s", "u", "a", "l", "i", "z",
    "a", "t", "i", "o", "n", ".", "p", "n", "g">>

AssignmentDir ==
    <<"A", "s", "s", "i", "g", "n", "m", "e", "n", "t">>

Session4Dir ==
    <<"S", "e", "s", "s", "i", "o", "n", "4">>

(* ------------------------- str methods used --------------------------- *)

Whitespace == {" ", "\t", "\n", "\r"}

Digits == {"0", "1", "2", "3", "4", "5", "6", "7", "8", "9"}

\* str.startswith(prefix)
StartsWith(s, prefix) ==
    /\ Len(s) >= Len(prefix)
    /\ SubSeq(s, 1, Len(prefix)) = prefix

RECURSIVE LStrip(_)
LStrip(s) ==
    IF s # <<>> /\ Head(s) \in Whitespace THEN LStrip(Tail(s)) ELSE s

RECURSIVE RStrip(_)
RStrip(s) ==
    IF s # <<>> /\ s[Len(s)] \in Whitespace
    THEN RStrip(SubSeq(s, 1, Len(s) - 1))
    ELSE s

\* str.strip(): leading and trailing whitespace removed
Strip(s) == RStrip(LStrip(s))

\* position of the first occurrence of character c in s at or after i, 0 if none
RECURSIVE Find(_, _, _)
Find(s, c, i) ==
    IF i > Len(s) THEN 0
    ELSE IF s[i] = c THEN i
    ELSE Find(s, c, i + 1)

\* str.split(sep, 1): split at the first sep only
SplitOnce(s, sep) ==
    LET i == Find(s, sep, 1)
    IN  IF i = 0 THEN <<s>>
        ELSE <<SubSeq(s, 1, i - 1), SubSeq(s, i + 1, Len(s))>>

\* str.split(sep): split at every sep, empty fields kept
RECURSIVE Split(_, _)
Split(s, sep) ==
    LET i == Find(s, sep, 1)
    IN  IF i = 0 THEN <<s>>
        ELSE <<SubSeq(s, 1, i - 1)>> \o Split(SubSeq(s, i + 1, Len(s)), sep)

\* sep.join(fields)
RECURSIVE Join(_, _)
Join(fields, sep) ==
    IF fields = <<>> THEN <<>>
    ELSE IF Len(fields) = 1 THEN fields[1]
    ELSE fields[1] \o sep \o Join(Tail(fields), sep)

(* ------------------------------ int(str) ------------------------------ *)

DigitValue(c) ==
    CASE c = "0" -> 0 [] c = "1" -> 1 [] c = "2" -> 2 [] c = "3" -> 3
      [] c = "4" -> 4 [] c = "5" -> 5 [] c = "6" -> 6 [] c = "7" -> 7
      [] c = "8" -> 8 [] c = "9" -> 9

\* the literal without its optional sign
IntBody(s) ==
    IF s # <<>> /\ Head(s) \in {"+", "-"} THEN Tail(s) ELSE s

\* int(s) succeeds: optional sign, then digits, single underscores allowed
\* between digits; surrounding whitespace is ignored
IsIntLiteral(s0) ==
    LET b == IntBody(Strip(s0))
    IN  /\ b # <<>>
        /\ \A i \in 1..Len(b) : b[i] \in Digits \cup {"_"}
        /\ b[1] \in Digits
        /\ b[Len(b)] \in Digits
        /\ \A i \in 1..(Len(b) - 1) : ~(b[i] = "_" /\ b[i + 1] = "_")

RECURSIVE DigitsValue(_, _)
DigitsValue(b, acc) ==
    IF b = <<>> THEN acc
    ELSE IF Head(b) = "_" THEN DigitsValue(Tail(b), acc)
    ELSE DigitsValue(Tail(b), acc * 10 + DigitValue(Head(b)))

\* the value of int(s) where IsIntLiteral(s); Python integers do not overflow
IntValue(s0) ==
    LET s == Strip(s0)
        v == DigitsValue(IntBody(s), 0)
    IN  IF Head(s) = "-" THEN 0 - v ELSE v

(* ------------------------------ os.path ------------------------------- *)

\* the working directory of the process
Cwd == <<"/", "w">>

IsAbs(p) == p # <<>> /\ Head(p) = "/"

\* os.path.join(a, b): an absolute b discards a
PathJoin(a, b) ==
    IF IsAbs(b) THEN b
    ELSE IF a = <<>> \/ a[Len(a)] = "/" THEN a \o b
    ELSE a \o <<"/">> \o b

\* the component stack of os.path.normpath: "" and "." are dropped, ".."
\* pops a component (and is dropped at the root)
RECURSIVE NormComps(_, _, _)
NormComps(comps, new, rooted) ==
    IF comps = <<>> THEN new
    ELSE LET c == Head(comps)
             up == <<".", ".">>
         IN  IF c = <<>> \/ c = <<".">> THEN NormComps(Tail(comps), new, rooted)
             ELSE IF \/ c # up
                     \/ (~rooted /\ new = <<>>)
                     \/ (new # <<>> /\ new[Len(new)] = up)
                  THEN NormComps(Tail(comps), Append(new, c), rooted)
             ELSE IF new # <<>>
                  THEN NormComps(Tail(comps), SubSeq(new, 1, Len(new) - 1), rooted)
             ELSE NormComps(Tail(comps), new, rooted)

\* os.path.normpath(p)
NormPath(p) ==
    IF p = <<>> THEN <<".">>
    ELSE LET slashes == IF ~IsAbs(p) THEN <<>>
                        ELSE IF StartsWith(p, <<"/", "/">>)
                                /\ ~StartsWith(p, <<"/", "/", "/">>)
                             THEN <<"/", "/">>
                             ELSE <<"/">>
             body == Join(NormComps(Split(p, "/"), <<>>, IsAbs(p)), <<"/">>)
             out == slashes \o body
         IN  IF out = <<>> THEN <<".">> ELSE out

\* os.path.abspath(p)
AbsPath(p) == NormPath(IF IsAbs(p) THEN p ELSE PathJoin(Cwd, p))

\* os.path.exists(p) against the set fs of existing absolute paths;
\* the empty path never exists
Exists(p, fs) == p # <<>> /\ AbsPath(p) \in fs

(* -------------------------- directive parser -------------------------- *)

\* Classify without its elif branch: FINAL_ANSWER is not recognised
ClassifyNoFinal(response_text) ==
    IF StartsWith(response_text, FUNCTION_CALL_MARK) THEN "Call" ELSE "Malformed"

\* whether marker occurs anywhere in s
Contains(s, marker) ==
    \E i \in 1..Len(s) : StartsWith(SubSeq(s, i, Len(s)), marker)

\* Classify with "marker in response_text" for startswith
ClassifyContains(response_text) ==
    IF Contains(response_text, FUNCTION_CALL_MARK) THEN "Call"
    ELSE IF Contains(response_text, FINAL_ANSWER_MARK) THEN "Final"
    ELSE "Malformed"

\* lines 249, 358, 363: which branch of the if/elif/else the trimmed
\* response takes
Classify(response_text) ==
    IF StartsWith(response_text, FUNCTION_CALL_MARK) THEN "Call"
    ELSE IF StartsWith(response_text, FINAL_ANSWER_MARK) THEN "Final"
    ELSE "Malformed"

\* Parts splitting at every colon and keeping the second piece
PartsEveryColon(response_text) ==
    LET function_info == Split(response_text, ":")[2]
        fields == Split(function_info, "|")
    IN  [i \in 1..Len(fields) |-> Strip(fields[i])]

\* lines 251-252: the text after the first colon, split at every pipe,
\* each field stripped
Parts(response_text) ==
    LET function_info == SplitOnce(response_text, ":")[2]
        fields == Split(function_info, "|")
    IN  [i \in 1..Len(fields) |-> Strip(fields[i])]

\* line 253: func_name, params = parts[0], parts[1:]
ParseFunctionCall(response_text) ==
    LET parts == Parts(response_text)
    IN  [func_name |-> parts[1], params |-> Tail(parts)]

(* --------------------------- argument mapper -------------------------- *)
\* Python's params[k] is params[k + 1] here.  A mapper yields the arguments
\* dict, or raised = TRUE where the Python code raises.

\* arguments = {}
NoArguments == [k \in {} |-> <<>>]

Mapped(arguments) == [raised |-> FALSE, arguments |-> arguments]

MapRaised == [raised |-> TRUE, arguments |-> NoArguments]

\* the body text of lines 288 and 326
DefaultBody(ui) == DefaultBodyPrefix \o ui \o <<"'">>

\* MapAsciiExpSum taking the string from the model's first parameter
MapAsciiExpSumFirstParam(params, ui) ==
    IF params # <<>> THEN Mapped([input_string |-> params[1]])
    ELSE Mapped([input_string |-> ui])

MapAsciiExpSum(params, ui) == Mapped([input_string |-> ui])

MapOpenPaint(params) == Mapped(NoArguments)

\* MapDrawRectangle swallowing the ValueError of int()
MapDrawRectangleLenient(params) ==
    IF Len(params) >= 4 /\ \A i \in 1..4 : IsIntLiteral(params[i])
    THEN Mapped([x1 |-> IntValue(params[1]),
                 y1 |-> IntValue(params[2]),
                 x2 |-> IntValue(params[3]),
                 y2 |-> IntValue(params[4])])
    ELSE Mapped(NoArguments)

MapDrawRectangle(params) ==
    IF Len(params) >= 4
    THEN IF \A i \in 1..4 : IsIntLiteral(params[i])
         THEN Mapped([x1 |-> IntValue(params[1]),
                      y1 |-> IntValue(params[2]),
                      x2 |-> IntValue(params[3]),
                      y2 |-> IntValue(params[4])])
         ELSE MapRaised
    ELSE Mapped(NoArguments)

MapAddTextInPaint(params) ==
    IF params # <<>> THEN Mapped([text |-> params[1]]) ELSE Mapped(NoArguments)

MapSavePaintFile(params) ==
    IF params # <<>> THEN Mapped([filename |-> params[1]]) ELSE Mapped(NoArguments)

\* MapEmailAsciiImage trusting the recipient the model supplied
MapEmailAsciiImageModelRecipient(params, ui, rcpt) ==
    IF Len(params) >= 3
    THEN Mapped([to_address |-> params[1],
                 subject |-> params[2],
                 body |-> params[3]])
    ELSE Mapped([to_address |-> rcpt,
                 subject |-> DefaultSubject,
                 body |-> DefaultBody(ui)])

MapEmailAsciiImage(params, ui, rcpt) ==
    IF Len(params) >= 3
    THEN Mapped([to_address |-> rcpt,
                 subject |-> params[2],
                 body |-> params[3]])
    ELSE Mapped([to_address |-> rcpt,
                 subject |-> DefaultSubject,
                 body |-> DefaultBody(ui)])

\* the three paths probed, in the order lines 297, 302, 307 probe them
Candidates(filename) ==
    <<filename,
      PathJoin(AssignmentDir, filename),
      PathJoin(PathJoin(Session4Dir, AssignmentDir), filename)>>

\* ResolveAttachment falling back to the bare filename
ResolveAttachmentNoAbsPath(filename, fs) ==
    LET assignment_path == Candidates(filename)[2]
        session_path == Candidates(filename)[3]
    IN  IF Exists(filename, fs) THEN filename
        ELSE IF Exists(assignment_path, fs) THEN assignment_path
        ELSE IF Exists(session_path, fs) THEN session_path
        ELSE filename

ResolveAttachment(filename, fs) ==
    LET assignment_path == Candidates(filename)[2]
        session_path == Candidates(filename)[3]
    IN  IF Exists(filename, fs) THEN filename
        ELSE IF Exists(assignment_path, fs) THEN assignment_path
        ELSE IF Exists(session_path, fs) THEN session_path
        ELSE AbsPath(filename)

\* MapSendEmailWithAttachment keeping a subject and body supplied short
MapSendEmailWithAttachmentPartial(params, ui, rcpt, fs) ==
    IF Len(params) >= 4
    THEN Mapped([to_address |-> rcpt,
                 subject |-> params[2],
                 body |-> params[3],
                 attachment_path |-> ResolveAttachment(params[4], fs)])
    ELSE Mapped([to_address |-> rcpt,
                 subject |-> IF Len(params) >= 2 THEN params[2]
                             ELSE DefaultSubject,
                 body |-> IF Len(params) >= 3 THEN params[3]
                          ELSE DefaultBody(ui),
                 attachment_path |-> DefaultAttachment])

MapSendEmailWithAttachment(params, ui, rcpt, fs) ==
    IF Len(params) >= 4
    THEN Mapped([to_address |-> rcpt,
                 subject |-> params[2],
                 body |-> params[3],
                 attachment_path |-> ResolveAttachment(params[4], fs)])
    ELSE Mapped([to_address |-> rcpt,
                 subject |-> DefaultSubject,
                 body |-> DefaultBody(ui),
                 attachment_path |-> DefaultAttachment])

\* MapArguments rejecting a name that is none of the known tools
MapArgumentsRejectUnknown(name, params, ui, rcpt, fs) ==
    IF name = ascii_exp_sum THEN MapAsciiExpSum(params, ui)
    ELSE IF name = open_paint THEN MapOpenPaint(params)
    ELSE IF name = draw_rectangle THEN MapDrawRectangle(params)
    ELSE IF name = add_text_in_paint THEN MapAddTextInPaint(params)
    ELSE IF name = save_paint_file THEN MapSavePaintFile(params)
    ELSE IF name = email_ascii_image THEN MapEmailAsciiImage(params, ui, rcpt)
    ELSE IF name = send_email_with_attachment
         THEN MapSendEmailWithAttachment(params, ui, rcpt, fs)
    ELSE MapRaised

\* lines 256-328: the if/elif chain on func_name
MapArguments(name, params, ui, rcpt, fs) ==
    IF name = ascii_exp_sum THEN MapAsciiExpSum(params, ui)
    ELSE IF name = open_paint THEN MapOpenPaint(params)
    ELSE IF name = draw_rectangle THEN MapDrawRectangle(params)
    ELSE IF name = add_text_in_paint THEN MapAddTextInPaint(params)
    ELSE IF name = save_paint_file THEN MapSavePaintFile(params)
    ELSE IF name = email_ascii_image THEN MapEmailAsciiImage(params, ui, rcpt)
    ELSE IF name = send_email_with_attachment
         THEN MapSendEmailWithAttachment(params, ui, rcpt, fs)
    ELSE Mapped(NoArguments)

(* -------------------------- result normaliser ------------------------- *)
\* A tool result: has_content (hasattr(result, 'content')), is_list
\* (isinstance(result.content, list)), items (the list's elements, each
\* with or without a text attribute) and str (what str() gives of the
\* content, or of the whole result when it has no content).

TextItem(t) == [has_text |-> TRUE, text |-> t]

ImageItem == [has_text |-> FALSE, text |-> <<>>]

ListResult(items) ==
    [has_content |-> TRUE, is_list |-> TRUE, items |-> items, str |-> <<>>]

ScalarResult(s) ==
    [has_content |-> TRUE, is_list |-> FALSE, items |-> <<>>, str |-> s]

BareResult(s) ==
    [has_content |-> FALSE, is_list |-> FALSE, items |-> <<>>, str |-> s]

\* lines 336-342; raised where result.content[0] or its .text does not exist
ResultText(result) ==
    IF result.has_content
    THEN IF result.is_list
         THEN IF result.items # <<>> /\ result.items[1].has_text
              THEN [raised |-> FALSE, text |-> result.items[1].text]
              ELSE [raised |-> TRUE, text |-> <<>>]
         ELSE [raised |-> FALSE, text |-> result.str]
    ELSE [raised |-> FALSE, text |-> result.str]

\* TranscriptEntry numbering from the 0-based counter
TranscriptEntryZeroBased(it, name, result_text) ==
    [iterationIndex |-> it, toolName |-> name, resultText |-> result_text]

\* line 345: the entry appended to iteration_response
TranscriptEntry(it, name, result_text) ==
    [iterationIndex |-> it + 1, toolName |-> name, resultText |-> result_text]

(* ----------------------- inputs of the exploration -------------------- *)
\* Texts the console, the environment, the file system, the model and the
\* tool provider may supply.

\* 'Hi'
Hi ==
    <<"H", "i">>

\* 'Yo'
Yo ==
    <<"Y", "o">>

\* 'a@b.c'
RecipientAB ==
    <<"a", "@", "b", ".", "c">>

\* 'm@e'
RecipientEnv ==
    <<"m", "@", "e">>

\* 'x@y'
RecipientX ==
    <<"x", "@", "y">>

\* 'q@y'
RecipientQ ==
    <<"q", "@", "y">>

\* '/w/a.png'
PathA ==
    <<"/", "w", "/", "a", ".", "p", "n", "g">>

\* '/w/Assignment'
PathAssignment ==
    <<"/", "w", "/", "A", "s", "s", "i", "g", "n", "m", "e", "n", "t">>

\* '/w/Assignment/a.png'
PathAssignmentA ==
    <<"/", "w", "/", "A", "s", "s", "i", "g", "n", "m", "e", "n", "t", "/",
    "a", ".", "p", "n", "g">>

\* '/w/Session4'
PathSession4 ==
    <<"/", "w", "/", "S", "e", "s", "s", "i", "o", "n", "4">>

\* '/w/Session4/Assignment'
PathSession4Assignment ==
    <<"/", "w", "/", "S", "e", "s", "s", "i", "o", "n", "4", "/", "A", "s",
    "s", "i", "g", "n", "m", "e", "n", "t">>

\* '/w/Session4/Assignment/a.png'
PathSession4AssignmentA ==
    <<"/", "w", "/", "S", "e", "s", "s", "i", "o", "n", "4", "/", "A", "s",
    "s", "i", "g", "n", "m", "e", "n", "t", "/", "a", ".", "p", "n", "g">>

\* '/a.png'
PathUpA ==
    <<"/", "a", ".", "p", "n", "g">>

\* '268'
Text268 ==
    <<"2", "6", "8">>

\* 'None'
TextNone ==
    <<"N", "o", "n", "e">>

\* 'meta=None'
TextRepr ==
    <<"m", "e", "t", "a", "=", "N", "o", "n", "e">>

\* what input() returns at lines 219 and 225
RawUserInputs == {<<>>, Hi}

RawRecipients == {<<>>, RecipientAB}

\* os.getenv("GMAIL_ADDRESS", "") at line 227
GmailAddresses == {<<>>, RecipientEnv}

\* the existing absolute paths: nothing; the file in the working
\* directory; in Assignment/; in Session4/Assignment/; in the first two
\* and in the parent of the working directory
FileSystems ==
    {{},
     {PathA},
     {PathAssignment, PathAssignmentA},
     {PathSession4, PathSession4Assignment, PathSession4AssignmentA},
     {PathA, PathUpA, PathAssignment, PathAssignmentA}}

\* response.text of the model, before strip()
\* 'FUNCTION_CALL: ascii_exp_sum|Hi'
CallAsciiHi ==
    <<"F", "U", "N", "C", "T", "I", "O", "N", "_", "C", "A", "L", "L", ":",
    " ", "a", "s", "c", "i", "i", "_", "e", "x", "p", "_", "s", "u", "m",
    "|", "H", "i">>

\* 'FUNCTION_CALL: ascii_exp_sum|Yo'
CallAsciiYo ==
    <<"F", "U", "N", "C", "T", "I", "O", "N", "_", "C", "A", "L", "L", ":",
    " ", "a", "s", "c", "i", "i", "_", "e", "x", "p", "_", "s", "u", "m",
    "|", "Y", "o">>

\* 'FUNCTION_CALL: ascii_exp_sum'
CallAsciiBare ==
    <<"F", "U", "N", "C", "T", "I", "O", "N", "_", "C", "A", "L", "L", ":",
    " ", "a", "s", "c", "i", "i", "_", "e", "x", "p", "_", "s", "u", "m">>

\* ' FUNCTION_CALL: open_paint\n'
CallOpenPaint ==
    <<" ", "F", "U", "N", "C", "T", "I", "O", "N", "_", "C", "A", "L", "L",
    ":", " ", "o", "p", "e", "n", "_", "p", "a", "i", "n", "t", "\n">>

\* 'FUNCTION_CALL: draw_rectangle|476|274|676|374'
CallRect ==
    <<"F", "U", "N", "C", "T", "I", "O", "N", "_", "C", "A", "L", "L", ":",
    " ", "d", "r", "a", "w", "_", "r", "e", "c", "t", "a", "n", "g", "l",
    "e", "|", "4", "7", "6", "|", "2", "7", "4", "|", "6", "7", "6", "|",
    "3", "7", "4">>

\* 'FUNCTION_CALL: draw_rectangle| -5 |+7|1_0|9|x'
CallRectSigned ==
    <<"F", "U", "N", "C", "T", "I", "O", "N", "_", "C", "A", "L", "L", ":",
    " ", "d", "r", "a", "w", "_", "r", "e", "c", "t", "a", "n", "g", "l",
    "e", "|", " ", "-", "5", " ", "|", "+", "7", "|", "1", "_", "0", "|",
    "9", "|", "x">>

\* 'FUNCTION_CALL: draw_rectangle|1|2|3'
CallRectThree ==
    <<"F", "U", "N", "C", "T", "I", "O", "N", "_", "C", "A", "L", "L", ":",
    " ", "d", "r", "a", "w", "_", "r", "e", "c", "t", "a", "n", "g", "l",
    "e", "|", "1", "|", "2", "|", "3">>

\* 'FUNCTION_CALL: draw_rectangle|1|2|x|4'
CallRectBadInt ==
    <<"F", "U", "N", "C", "T", "I", "O", "N", "_", "C", "A", "L", "L", ":",
    " ", "d", "r", "a", "w", "_", "r", "e", "c", "t", "a", "n", "g", "l",
    "e", "|", "1", "|", "2", "|", "x", "|", "4">>

\* 'FUNCTION_CALL: draw_rectangle|1|2|3|'
CallRectEmptyInt ==
    <<"F", "U", "N", "C", "T", "I", "O", "N", "_", "C", "A", "L", "L", ":",
    " ", "d", "r", "a", "w", "_", "r", "e", "c", "t", "a", "n", "g", "l",
    "e", "|", "1", "|", "2", "|", "3", "|">>

\* 'FUNCTION_CALL: add_text_in_paint|268'
CallAddText ==
    <<"F", "U", "N", "C", "T", "I", "O", "N", "_", "C", "A", "L", "L", ":",
    " ", "a", "d", "d", "_", "t", "e", "x", "t", "_", "i", "n", "_", "p",
    "a", "i", "n", "t", "|", "2", "6", "8">>

\* 'FUNCTION_CALL:add_text_in_paint|a:b'
CallAddTextColon ==
    <<"F", "U", "N", "C", "T", "I", "O", "N", "_", "C", "A", "L", "L", ":",
    "a", "d", "d", "_", "t", "e", "x", "t", "_", "i", "n", "_", "p", "a",
    "i", "n", "t", "|", "a", ":", "b">>

\* 'FUNCTION_CALL: add_text_in_paint'
CallAddTextBare ==
    <<"F", "U", "N", "C", "T", "I", "O", "N", "_", "C", "A", "L", "L", ":",
    " ", "a", "d", "d", "_", "t", "e", "x", "t", "_", "i", "n", "_", "p",
    "a", "i", "n", "t">>

\* 'FUNCTION_CALL: save_paint_file|a.png'
CallSave ==
    <<"F", "U", "N", "C", "T", "I", "O", "N", "_", "C", "A", "L", "L", ":",
    " ", "s", "a", "v", "e", "_", "p", "a", "i", "n", "t", "_", "f", "i",
    "l", "e", "|", "a", ".", "p", "n", "g">>

\* 'FUNCTION_CALL: save_paint_file'
CallSaveBare ==
    <<"F", "U", "N", "C", "T", "I", "O", "N", "_", "C", "A", "L", "L", ":",
    " ", "s", "a", "v", "e", "_", "p", "a", "i", "n", "t", "_", "f", "i",
    "l", "e">>

\* 'FUNCTION_CALL: email_ascii_image|x@y|Re|Bo'
CallEmail ==
    <<"F", "U", "N", "C", "T", "I", "O", "N", "_", "C", "A", "L", "L", ":",
    " ", "e", "m", "a", "i", "l", "_", "a", "s", "c", "i", "i", "_", "i",
    "m", "a", "g", "e", "|", "x", "@", "y", "|", "R", "e", "|", "B", "o">>

\* 'FUNCTION_CALL: email_ascii_image|q@y|Re|Bo'
CallEmailOther ==
    <<"F", "U", "N", "C", "T", "I", "O", "N", "_", "C", "A", "L", "L", ":",
    " ", "e", "m", "a", "i", "l", "_", "a", "s", "c", "i", "i", "_", "i",
    "m", "a", "g", "e", "|", "q", "@", "y", "|", "R", "e", "|", "B", "o">>

\* 'FUNCTION_CALL: email_ascii_image|x@y'
CallEmailOne ==
    <<"F", "U", "N", "C", "T", "I", "O", "N", "_", "C", "A", "L", "L", ":",
    " ", "e", "m", "a", "i", "l", "_", "a", "s", "c", "i", "i", "_", "i",
    "m", "a", "g", "e", "|", "x", "@", "y">>

\* 'FUNCTION_CALL: email_ascii_image'
CallEmailBare ==
    <<"F", "U", "N", "C", "T", "I", "O", "N", "_", "C", "A", "L", "L", ":",
    " ", "e", "m", "a", "i", "l", "_", "a", "s", "c", "i", "i", "_", "i",
    "m", "a", "g", "e">>

\* 'FUNCTION_CALL: send_email_with_attachment|x@y|Re|Bo|a.png'
CallSend ==
    <<"F", "U", "N", "C", "T", "I", "O", "N", "_", "C", "A", "L", "L", ":",
    " ", "s", "e", "n", "d", "_", "e", "m", "a", "i", "l", "_", "w", "i",
    "t", "h", "_", "a", "t", "t", "a", "c", "h", "m", "e", "n", "t", "|",
    "x", "@", "y", "|", "R", "e", "|", "B", "o", "|", "a", ".", "p", "n",
    "g">>

\* 'FUNCTION_CALL: send_email_with_attachment|q@y|Re|Bo|a.png'
CallSendOther ==
    <<"F", "U", "N", "C", "T", "I", "O", "N", "_", "C", "A", "L", "L", ":",
    " ", "s", "e", "n", "d", "_", "e", "m", "a", "i", "l", "_", "w", "i",
    "t", "h", "_", "a", "t", "t", "a", "c", "h", "m", "e", "n", "t", "|",
    "q", "@", "y", "|", "R", "e", "|", "B", "o", "|", "a", ".", "p", "n",
    "g">>

\* 'FUNCTION_CALL: send_email_with_attachment|x@y|Re|Bo|'
CallSendEmptyFile ==
    <<"F", "U", "N", "C", "T", "I", "O", "N", "_", "C", "A", "L", "L", ":",
    " ", "s", "e", "n", "d", "_", "e", "m", "a", "i", "l", "_", "w", "i",
    "t", "h", "_", "a", "t", "t", "a", "c", "h", "m", "e", "n", "t", "|",
    "x", "@", "y", "|", "R", "e", "|", "B", "o", "|">>

\* 'FUNCTION_CALL: send_email_with_attachment|x@y|Re|Bo|../a.png'
CallSendUpFile ==
    <<"F", "U", "N", "C", "T", "I", "O", "N", "_", "C", "A", "L", "L", ":",
    " ", "s", "e", "n", "d", "_", "e", "m", "a", "i", "l", "_", "w", "i",
    "t", "h", "_", "a", "t", "t", "a", "c", "h", "m", "e", "n", "t", "|",
    "x", "@", "y", "|", "R", "e", "|", "B", "o", "|", ".", ".", "/", "a",
    ".", "p", "n", "g">>

\* 'FUNCTION_CALL: send_email_with_attachment|x@y|Re|Bo'
CallSendThree ==
    <<"F", "U", "N", "C", "T", "I", "O", "N", "_", "C", "A", "L", "L", ":",
    " ", "s", "e", "n", "d", "_", "e", "m", "a", "i", "l", "_", "w", "i",
    "t", "h", "_", "a", "t", "t", "a", "c", "h", "m", "e", "n", "t", "|",
    "x", "@", "y", "|", "R", "e", "|", "B", "o">>

\* 'FUNCTION_CALL: send_email_with_attachment'
CallSendBare ==
    <<"F", "U", "N", "C", "T", "I", "O", "N", "_", "C", "A", "L", "L", ":",
    " ", "s", "e", "n", "d", "_", "e", "m", "a", "i", "l", "_", "w", "i",
    "t", "h", "_", "a", "t", "t", "a", "c", "h", "m", "e", "n", "t">>

\* 'FUNCTION_CALL: foo|1'
CallUnknown ==
    <<"F", "U", "N", "C", "T", "I", "O", "N", "_", "C", "A", "L", "L", ":",
    " ", "f", "o", "o", "|", "1">>

\* 'FUNCTION_CALL:'
CallNoName ==
    <<"F", "U", "N", "C", "T", "I", "O", "N", "_", "C", "A", "L", "L", ":">>

\* ' FINAL_ANSWER: done\n'
FinalDone ==
    <<" ", "F", "I", "N", "A", "L", "_", "A", "N", "S", "W", "E", "R", ":",
    " ", "d", "o", "n", "e", "\n">>

\* 'FINAL_ANSWER:'
FinalEmpty ==
    <<"F", "I", "N", "A", "L", "_", "A", "N", "S", "W", "E", "R", ":">>

\* 'I am thinking...'
Thinking ==
    <<"I", " ", "a", "m", " ", "t", "h", "i", "n", "k", "i", "n", "g", ".",
    ".", ".">>

\* ''
EmptyResponse ==
    <<>>

\* ' \n'
BlankResponse ==
    <<" ", "\n">>

\* 'function_call: open_paint'
LowerCaseCall ==
    <<"f", "u", "n", "c", "t", "i", "o", "n", "_", "c", "a", "l", "l", ":",
    " ", "o", "p", "e", "n", "_", "p", "a", "i", "n", "t">>

\* 'FUNCTION_CALL open_paint'
CallNoColon ==
    <<"F", "U", "N", "C", "T", "I", "O", "N", "_", "C", "A", "L", "L", " ",
    "o", "p", "e", "n", "_", "p", "a", "i", "n", "t">>

\* 'OK FUNCTION_CALL: open_paint'
CallNotAtStart ==
    <<"O", "K", " ", "F", "U", "N", "C", "T", "I", "O", "N", "_", "C", "A",
    "L", "L", ":", " ", "o", "p", "e", "n", "_", "p", "a", "i", "n", "t">>

DirectiveLines ==
    {CallAsciiHi, CallAsciiYo, CallAsciiBare, CallOpenPaint, CallRect,
     CallRectSigned, CallRectThree, CallRectBadInt, CallRectEmptyInt,
     CallAddText, CallAddTextColon, CallAddTextBare, CallSave,
     CallSaveBare, CallEmail, CallEmailOther, CallEmailOne,
     CallEmailBare, CallSend, CallSendOther, CallSendEmptyFile,
     CallSendUpFile, CallSendThree, CallSendBare, CallUnknown,
     CallNoName, FinalDone, FinalEmpty, Thinking, EmptyResponse,
     BlankResponse, LowerCaseCall, CallNoColon, CallNotAtStart}

\* what session.call_tool may return
ToolResults ==
    {ListResult(<<TextItem(Text268)>>),
     ListResult(<<TextItem(Text268), TextItem(Hi)>>),
     ListResult(<<>>),
     ListResult(<<ImageItem>>),
     ScalarResult(TextNone),
     BareResult(TextRepr)}

(* ------------------------------ bounds -------------------------------- *)

\* src line 43
max_iterations == 10

\* turns explored with every line of DirectiveLines
MaxDirectiveTurns == 1

\* turns explored with every result of ToolResults
MaxResultTurns == 2

\* The exploration has four scopes.  "session": whole sessions, to the
\* iteration cap, over a few lines and results.  "directives": the first
\* MaxDirectiveTurns turns over every line.  "results": the first
\* MaxResultTurns turns over every tool result.  "process": whole runs of
\* the process, from the configuration check to the exit, with every
\* outcome of the start-up and of the exit.
Scopes == {"session", "directives", "results", "process"}

LinesOf(sc) ==
    CASE sc = "session" ->
           {CallAsciiHi, CallOpenPaint, CallRectBadInt, FinalDone, Thinking}
      [] sc = "directives" -> DirectiveLines
      [] sc = "results" -> {CallAsciiHi, CallRectThree, FinalDone}
      [] sc = "process" -> {CallOpenPaint, CallRectBadInt, FinalDone, Thinking}

ResultsOf(sc) ==
    CASE sc = "session" -> {ListResult(<<TextItem(Text268)>>), ListResult(<<>>)}
      [] sc = "directives" -> {ListResult(<<TextItem(Text268)>>)}
      [] sc = "results" -> ToolResults
      [] sc = "process" -> {ListResult(<<TextItem(Text268)>>), ListResult(<<>>)}

\* the console, environment and file system inputs a scope draws from:
\* every combination for the directives, the console input alone for the
\* session and the results, one input for the process
InputsOf(sc) ==
    CASE sc = "directives" ->
           [raw_input : RawUserInputs, raw_recipient : RawRecipients,
            gmail_address : GmailAddresses, files : FileSystems]
      [] sc = "process" ->
           [raw_input : {Hi}, raw_recipient : {RecipientAB},
            gmail_address : {<<>>}, files : {{}}]
      [] OTHER ->
           [raw_input : RawUserInputs, raw_recipient : {RecipientAB},
            gmail_address : {<<>>}, files : {{}}]

\* whether the exploration follows another generation request
WithinScope(sc, requests) ==
    CASE sc = "session" -> TRUE
      [] sc = "directives" -> requests < MaxDirectiveTurns
      [] sc = "results" -> requests < MaxResultTurns
      [] sc = "process" -> TRUE

\* the outcomes of a start-up step a scope follows: the step succeeds, and
\* in the process scope it also fails
Outcomes(sc) == IF sc = "process" THEN BOOLEAN ELSE {TRUE}

\* whether the exploration follows the process beyond the end of main()
ExitsExplored(sc) == sc = "process"

(* ------------------------------- state -------------------------------- *)

VARIABLES
    scope,               \* which part of the input space this run explores
    api_key,             \* line 34: GEMINI_API_KEY is set
    user_input,          \* line 219-221
    recipient_email,     \* line 225-227
    files,               \* the existing absolute paths
    pc,                  \* where main() stands
    iteration,           \* line 44
    iteration_response,  \* line 45
    query,               \* lines 234, 348
    prompt,              \* line 242: the query of the last generation request
    response_text,       \* line 246
    func_name,           \* line 253
    params,              \* line 253
    arguments,           \* line 256
    generations,         \* generation requests issued so far
    tool_calls,          \* session.call_tool requests issued so far
    tool_returns,        \* session.call_tool requests that returned a result
    caught,              \* lines 367, 377: the exception caught, "" while none
    notice,              \* lines 374-375 printed
    executor,            \* lines 53-59: the generate_content call in the pool
    process,             \* where the process stands
    registered,          \* line 124: cleanup_resources is an exit handler
    raised,              \* what left asyncio.run(main()), "" if it returned
    exit_code,           \* the exit status of the process
    children,            \* lines 112, 407: the children last listed
    attempted,           \* lines 115, 411: those terminate() was called on
    failed,              \* lines 116, 412: those whose terminate() raised
    cleanup_runs         \* runs of the loops at lines 113-117 and 408-413

\* the session's inputs, fixed once collected
inputs == <<scope, api_key, user_input, recipient_email, files>>

\* the locals of the turn
turn == <<response_text, func_name, params, arguments>>

\* the state of the process around main()
proc ==
    <<process, registered, raised, exit_code, children, attempted, failed,
      cleanup_runs>>

vars ==
    <<inputs, pc, iteration, iteration_response, query, prompt, turn,
      generations, tool_calls, tool_returns, caught, notice, executor, proc>>

\* lines 219-221
CollectUserInput(raw) == IF raw = <<>> THEN DefaultUserInput ELSE raw

\* lines 225-227
CollectRecipient(raw, gmail_address) == IF raw = <<>> THEN gmail_address ELSE raw

\* line 234
InitialQuery(ui, rcpt) ==
    [form |-> "task", user_input |-> ui, recipient_email |-> rcpt, steps |-> <<>>]

\* lines 348-351
HistoryQuery(ui, rcpt, steps) ==
    [form |-> "history", user_input |-> <<>>, recipient_email |-> <<>>,
     steps |-> steps]

\* the state when the interpreter starts the script
Init ==
    /\ scope \in Scopes
    /\ api_key \in Outcomes(scope)
    /\ files \in {in.files : in \in InputsOf(scope)}
    /\ user_input = <<>>
    /\ recipient_email = <<>>
    /\ pc = "Start"
    /\ iteration = 0
    /\ iteration_response = <<>>
    /\ query = <<>>
    /\ prompt = <<>>
    /\ response_text = <<>>
    /\ func_name = <<>>
    /\ params = <<>>
    /\ arguments = NoArguments
    /\ generations = 0
    /\ tool_calls = 0
    /\ tool_returns = 0
    /\ caught = ""
    /\ notice = FALSE
    /\ executor = "idle"
    /\ process = "Importing"
    /\ registered = FALSE
    /\ raised = ""
    /\ exit_code = 0
    /\ children = <<>>
    /\ attempted = {}
    /\ failed = {}
    /\ cleanup_runs = 0

(* ----------------------------- the start ------------------------------ *)

\* lines 34-38, 124, 390-392: without the key the script exits with status
\* 1 at line 38; with it the exit handler is registered and main() starts
LoadConfiguration ==
    /\ process = "Importing"
    /\ IF api_key
       THEN /\ registered' = TRUE
            /\ process' = "InMain"
            /\ UNCHANGED exit_code
       ELSE /\ exit_code' = 1
            /\ process' = "Exited"
            /\ UNCHANGED registered
    /\ UNCHANGED <<inputs, pc, iteration, iteration_response, query, prompt,
                   turn, generations, tool_calls, tool_returns, caught,
                   notice, executor, raised, children, attempted, failed,
                   cleanup_runs>>

\* lines 134-155: paint_tools.py is looked for; not found, sys.exit(1)
\* raises SystemExit through the handlers at 377 and 381
FindScript(found) ==
    /\ process = "InMain"
    /\ pc = "Start"
    /\ IF found
       THEN /\ pc' = "Connecting"
            /\ UNCHANGED <<process, raised>>
       ELSE /\ raised' = "SystemExit"
            /\ process' = "Unwinding"
            /\ UNCHANGED pc
    /\ UNCHANGED <<inputs, iteration, iteration_response, query, prompt,
                   turn, generations, tool_calls, tool_returns, caught,
                   notice, executor, registered, exit_code, children,
                   attempted, failed, cleanup_runs>>

\* lines 157-234, 377-380: the provider is started and the session with it
\* set up, the two inputs are read and the first query is built; an
\* exception on the way is caught at line 377
Connect(ok, in) ==
    /\ process = "InMain"
    /\ pc = "Connecting"
    /\ in.files = files
    /\ IF ok
       THEN /\ user_input' = CollectUserInput(in.raw_input)
            /\ recipient_email' =
                   CollectRecipient(in.raw_recipient, in.gmail_address)
            /\ query' = InitialQuery(user_input', recipient_email')
            /\ pc' = "Initializing"
            /\ UNCHANGED caught
       ELSE /\ pc' = "Aborted"
            /\ caught' = "ConnectionError"
            /\ UNCHANGED <<user_input, recipient_email, query>>
    /\ UNCHANGED <<scope, api_key, files, iteration, iteration_response,
                   prompt, turn, generations, tool_calls, tool_returns,
                   notice, executor, proc>>

(* ------------------------------ the loop ------------------------------ *)

\* AfterLoop counting the pass that was left by break
AfterLoopCountsPass(it) == notice' = (it + 1 >= max_iterations)

\* lines 373-375, reached on every way out of the loop
AfterLoop(it) == notice' = (it >= max_iterations)

\* lines 361, 373: the loop is left by the FINAL_ANSWER break
Finish ==
    /\ pc' = "Finished"
    /\ AfterLoop(iteration)

\* lines 363-365, 373: the loop is left by the break of the else branch
Unexpected ==
    /\ pc' = "Aborted"
    /\ AfterLoop(iteration)

\* Catch with "continue" for "break": the pass is run again
CatchContinue(e) ==
    /\ pc' = "Initializing"
    /\ caught' = e
    /\ notice' = notice

\* lines 367-369, 373: the loop is left by the break of the except clause
Catch(e) ==
    /\ pc' = "Aborted"
    /\ caught' = e
    /\ AfterLoop(iteration)

\* LoopPass with "<=" for "<" in the while test
LoopPassOffByOne(it, q) ==
    IF it <= max_iterations
    THEN /\ WithinScope(scope, generations)
         /\ prompt' = q
         /\ generations' = generations + 1
         /\ executor' = "running"
         /\ pc' = "AwaitingGeneration"
         /\ notice' = notice
    ELSE /\ pc' = "Finished"
         /\ AfterLoop(it)
         /\ UNCHANGED <<prompt, generations, executor>>

\* LoopPass without the way out at the cap
LoopPassNoExit(it, q) ==
    /\ it < max_iterations
    /\ WithinScope(scope, generations)
    /\ prompt' = q
    /\ generations' = generations + 1
    /\ executor' = "running"
    /\ pc' = "AwaitingGeneration"
    /\ notice' = notice

\* lines 237-245, 53-59: the while test with iteration = it and query = q,
\* then the generation request handed to the executor, or the way out at
\* the cap
LoopPass(it, q) ==
    IF it < max_iterations
    THEN /\ WithinScope(scope, generations)
         /\ prompt' = q
         /\ generations' = generations + 1
         /\ executor' = "running"
         /\ pc' = "AwaitingGeneration"
         /\ notice' = notice
    ELSE /\ pc' = "Finished"
         /\ AfterLoop(it)
         /\ UNCHANGED <<prompt, generations, executor>>

\* the loop is entered
EnterLoop ==
    /\ process = "InMain"
    /\ pc = "Initializing"
    /\ LoopPass(iteration, query)
    /\ UNCHANGED <<inputs, turn, iteration, iteration_response, query,
                   tool_calls, tool_returns, caught, proc>>

\* lines 246-333: the response arrives; it is parsed, its arguments are
\* mapped and the tool call is issued
GenerationCompleted(raw) ==
    /\ process = "InMain"
    /\ pc = "AwaitingGeneration"
    /\ executor' = "idle"
    /\ LET text == Strip(raw)
           kind == Classify(text)
       IN  /\ response_text' = text
           /\ IF kind = "Call"
              THEN LET call == ParseFunctionCall(text)
                       m == MapArguments(call.func_name, call.params,
                                         user_input, recipient_email, files)
                   IN  /\ func_name' = call.func_name
                       /\ params' = call.params
                       /\ arguments' = m.arguments
                       /\ IF m.raised
                          THEN /\ Catch("ValueError")
                               /\ UNCHANGED tool_calls
                          ELSE /\ tool_calls' = tool_calls + 1
                               /\ pc' = "Dispatching"
                               /\ UNCHANGED <<caught, notice>>
              ELSE /\ IF kind = "Final" THEN Finish ELSE Unexpected
                   /\ UNCHANGED <<func_name, params, arguments, tool_calls,
                                  caught>>
    /\ UNCHANGED <<inputs, iteration, iteration_response, query, prompt,
                   generations, tool_returns, proc>>

\* GenerationTimedOut reporting the timeout and waiting on
GenerationTimedOutIgnored ==
    /\ process = "InMain"
    /\ pc = "AwaitingGeneration"
    /\ caught = ""
    /\ caught' = "TimeoutError"
    /\ UNCHANGED <<inputs, pc, turn, iteration, iteration_response, query,
                   prompt, generations, tool_calls, tool_returns, notice,
                   executor, proc>>

\* lines 52-67, 367-369: the deadline of asyncio.wait_for expires first;
\* the call goes on in its thread, its future awaited by no one
GenerationTimedOut ==
    /\ process = "InMain"
    /\ pc = "AwaitingGeneration"
    /\ executor' = "abandoned"
    /\ Catch("TimeoutError")
    /\ UNCHANGED <<inputs, turn, iteration, iteration_response, query, prompt,
                   generations, tool_calls, tool_returns, proc>>

\* lines 68-70, 246, 367-369: generate_content raises, or the response has
\* no text to strip
GenerationFailed ==
    /\ process = "InMain"
    /\ pc = "AwaitingGeneration"
    /\ executor' = "idle"
    /\ Catch("GenerationError")
    /\ UNCHANGED <<inputs, turn, iteration, iteration_response, query, prompt,
                   generations, tool_calls, tool_returns, proc>>

\* lines 55-58: the abandoned generate_content call returns or raises in
\* its thread; nothing reads its outcome
AbandonedCallEnds ==
    /\ executor = "abandoned"
    /\ executor' = "idle"
    /\ UNCHANGED <<inputs, pc, iteration, iteration_response, query, prompt,
                   turn, generations, tool_calls, tool_returns, caught,
                   notice, proc>>

\* ToolReturned going on to the next pass with neither pause nor increment
ToolReturnedNoPause(result) ==
    /\ process = "InMain"
    /\ pc = "Dispatching"
    /\ tool_returns' = tool_returns + 1
    /\ LET r == ResultText(result)
       IN  IF r.raised
           THEN /\ Catch("ResultError")
                /\ UNCHANGED <<iteration_response, query, prompt,
                               generations, executor>>
           ELSE /\ iteration_response' =
                       Append(iteration_response,
                              TranscriptEntry(iteration, func_name, r.text))
                /\ query' = HistoryQuery(user_input, recipient_email,
                                         iteration_response')
                /\ LoopPass(iteration, query')
                /\ UNCHANGED caught
    /\ UNCHANGED <<inputs, turn, iteration, tool_calls, proc>>

\* lines 333-356: the tool result arrives, is normalised and recorded
ToolReturned(result) ==
    /\ process = "InMain"
    /\ pc = "Dispatching"
    /\ tool_returns' = tool_returns + 1
    /\ LET r == ResultText(result)
       IN  IF r.raised
           THEN /\ Catch("ResultError")
                /\ UNCHANGED <<iteration_response, query>>
           ELSE /\ iteration_response' =
                       Append(iteration_response,
                              TranscriptEntry(iteration, func_name, r.text))
                /\ query' = HistoryQuery(user_input, recipient_email,
                                         iteration_response')
                /\ pc' = "Accumulating"
                /\ UNCHANGED <<caught, notice>>
    /\ UNCHANGED <<inputs, turn, iteration, prompt, generations, tool_calls,
                   executor, proc>>

\* lines 333, 367-369: session.call_tool raises
ToolRaised ==
    /\ process = "InMain"
    /\ pc = "Dispatching"
    /\ Catch("ToolError")
    /\ UNCHANGED <<inputs, turn, iteration, iteration_response, query, prompt,
                   generations, tool_calls, tool_returns, executor, proc>>

\* PauseElapsed advancing the counter by two
PauseElapsedSkips ==
    /\ process = "InMain"
    /\ pc = "Accumulating"
    /\ iteration' = iteration + 2
    /\ LoopPass(iteration + 2, query)
    /\ UNCHANGED <<inputs, turn, iteration_response, query, tool_calls,
                   tool_returns, caught, proc>>

\* lines 356, 371, 237: the pause ends, the counter advances and the next
\* pass begins
PauseElapsed ==
    /\ process = "InMain"
    /\ pc = "Accumulating"
    /\ iteration' = iteration + 1
    /\ LoopPass(iteration + 1, query)
    /\ UNCHANGED <<inputs, turn, iteration_response, query, tool_calls,
                   tool_returns, caught, proc>>

(* ------------------------------ the exit ------------------------------ *)

\* what psutil may list at lines 112 and 407: the provider and what it
\* started, in the order listed
ChildLists == {<<>>, <<"server">>, <<"server", "paint">>}

\* the elements of a list
Range(s) == {s[i] : i \in 1..Len(s)}

\* a later listing holds no child the earlier one did not hold
LaterLists(cs) ==
    {SelectSeq(cs, LAMBDA c : c \in S) : S \in SUBSET Range(cs)}

\* TerminateEach leaving the loop at the first terminate() that raises
RECURSIVE TerminateEachUntilFailure(_, _)
TerminateEachUntilFailure(cs, failing) ==
    IF cs = <<>> THEN [attempted |-> {}, failed |-> {}]
    ELSE IF Head(cs) \in failing
    THEN [attempted |-> {Head(cs)}, failed |-> {Head(cs)}]
    ELSE LET rest == TerminateEachUntilFailure(Tail(cs), failing)
         IN  [attempted |-> {Head(cs)} \cup rest.attempted,
              failed |-> rest.failed]

\* lines 113-117, 408-413: terminate() is called on each child listed; the
\* exception of one is caught inside the loop
RECURSIVE TerminateEach(_, _)
TerminateEach(cs, failing) ==
    IF cs = <<>> THEN [attempted |-> {}, failed |-> {}]
    ELSE LET rest == TerminateEach(Tail(cs), failing)
         IN  [attempted |-> {Head(cs)} \cup rest.attempted,
              failed |-> (IF Head(cs) \in failing THEN {Head(cs)} ELSE {})
                            \cup rest.failed]

\* one run of the loop over the children listed
Cleanup(listed, failing) ==
    LET t == TerminateEach(listed, failing)
    IN  /\ children' = listed
        /\ attempted' = t.attempted
        /\ failed' = t.failed
        /\ cleanup_runs' = cleanup_runs + 1

\* ExitCode without the sys.exit(1) of line 398
ExitCodeFatalIgnored(e) == IF e = "SystemExit" THEN 1 ELSE 0

\* lines 393-398: the status the process exits with when e left
\* asyncio.run(main())
ExitCode(e) == IF e \in {"SystemExit", "Exception"} THEN 1 ELSE 0

\* lines 377-388: main() ends after the loop or after the handler of line
\* 377; its finally clause may raise
ReturnFromMain(fatal) ==
    /\ process = "InMain"
    /\ pc \in {"Finished", "Aborted"}
    /\ ExitsExplored(scope)
    /\ raised' = IF fatal THEN "Exception" ELSE ""
    /\ process' = "Unwinding"
    /\ UNCHANGED <<inputs, pc, iteration, iteration_response, query, prompt,
                   turn, generations, tool_calls, tool_returns, caught,
                   notice, executor, registered, exit_code, children,
                   attempted, failed, cleanup_runs>>

\* line 393: Ctrl-C while main() runs; the loop is cancelled where it
\* stands and a generation call in the executor is left behind
Interrupt ==
    /\ process = "InMain"
    /\ ExitsExplored(scope)
    /\ raised' = "KeyboardInterrupt"
    /\ process' = "Unwinding"
    /\ executor' = IF executor = "running" THEN "abandoned" ELSE executor
    /\ UNCHANGED <<inputs, pc, iteration, iteration_response, query, prompt,
                   turn, generations, tool_calls, tool_returns, caught,
                   notice, registered, exit_code, children, attempted,
                   failed, cleanup_runs>>

\* lines 392-416: asyncio.run has joined the executor's thread; the
\* handlers choose the exit status and the finally clause terminates the
\* children
HandleExit(listed, failing) ==
    /\ process = "Unwinding"
    /\ executor = "idle"
    /\ pc \in {"Start", "Connecting"} => listed = <<>>
    /\ exit_code' = ExitCode(raised)
    /\ Cleanup(listed, failing)
    /\ process' = "AtExit"
    /\ UNCHANGED <<inputs, pc, iteration, iteration_response, query, prompt,
                   turn, generations, tool_calls, tool_returns, caught,
                   notice, executor, registered, raised>>

\* lines 104-124: the interpreter runs cleanup_resources on its way out
AtExit(listed, failing) ==
    /\ process = "AtExit"
    /\ registered
    /\ Cleanup(listed, failing)
    /\ process' = "Exited"
    /\ UNCHANGED <<inputs, pc, iteration, iteration_response, query, prompt,
                   turn, generations, tool_calls, tool_returns, caught,
                   notice, executor, registered, raised, exit_code>>

Next ==
    \/ LoadConfiguration
    \/ \E found \in Outcomes(scope) : FindScript(found)
    \/ \E ok \in Outcomes(scope), in \in InputsOf(scope) : Connect(ok, in)
    \/ EnterLoop
    \/ \E raw \in LinesOf(scope) : GenerationCompleted(raw)
    \/ GenerationTimedOut
    \/ GenerationFailed
    \/ AbandonedCallEnds
    \/ \E result \in ResultsOf(scope) : ToolReturned(result)
    \/ ToolRaised
    \/ PauseElapsed
    \/ \E fatal \in BOOLEAN : ReturnFromMain(fatal)
    \/ Interrupt
    \/ \E listed \in ChildLists, failing \in SUBSET {"server", "paint"} :
           failing \subseteq Range(listed) /\ HandleExit(listed, failing)
    \/ \E listed \in LaterLists(children) :
           \E failing \in SUBSET Range(listed) : AtExit(listed, failing)

\* the scopes whose sessions are followed to their end
LiveScopes == {"session", "process"}

InitLive == Init /\ scope \in LiveScopes

Spec == Init /\ [][Next]_vars

\* every generation request and every tool call returns, raises or times
\* out, the pause ends and the exit proceeds
SpecLive == InitLive /\ [][Next]_vars /\ WF_vars(Next)

(* ----------------------------- properties ----------------------------- *)

\* a step in which the response of the generation request arrives
ResponseArrives ==
    /\ pc = "AwaitingGeneration"
    /\ pc' # pc
    /\ caught' \notin {"TimeoutError", "GenerationError"}

\* no generation request and no tool call is issued in the step
NoRequest ==
    /\ generations' = generations
    /\ tool_calls' = tool_calls

EmailTools == {email_ascii_image, send_email_with_attachment}

\* C1: a turn whose trimmed response starts with FINAL_ANSWER: ends in
\* Finished in that turn, issuing no tool call and no generation request,
\* and from Finished nothing is ever requested again.
C1_FinalAnswerFinishes ==
    [][/\ (ResponseArrives /\ StartsWith(response_text', FINAL_ANSWER_MARK))
             => (pc' = "Finished" /\ NoRequest)
       /\ pc = "Finished" => (pc' = "Finished" /\ NoRequest)]_vars

\* a session ended by FINAL_ANSWER after two recorded tool calls
C1_Witness ==
    /\ pc = "Finished"
    /\ StartsWith(response_text, FINAL_ANSWER_MARK)
    /\ iteration = 2
    /\ tool_calls = 2
    /\ generations = 3

\* C2: at most max_iterations generation requests and tool calls are
\* issued; once max_iterations results are accumulated the loop is left
\* in Finished with the max-iterations notice and no further request.
C2_NeverExceedsMaxIterations ==
    /\ generations <= max_iterations
    /\ tool_calls <= max_iterations
    /\ Len(iteration_response) = max_iterations
          => /\ generations = max_iterations
             /\ pc = "Accumulating" \/ (pc = "Finished" /\ notice)
    /\ iteration = max_iterations
          => (pc = "Finished" /\ notice /\ generations = max_iterations)

\* a session that ran into the cap
C2_Witness ==
    /\ pc = "Finished"
    /\ notice
    /\ iteration = max_iterations
    /\ Len(iteration_response) = max_iterations
    /\ generations = max_iterations
    /\ tool_calls = max_iterations

\* C3: a turn whose trimmed response starts with neither marker aborts
\* the session in that turn without a tool call, and after the abort no
\* generation request and no tool call is issued.
C3_MalformedAborts ==
    [][/\ (/\ ResponseArrives
           /\ ~StartsWith(response_text', FUNCTION_CALL_MARK)
           /\ ~StartsWith(response_text', FINAL_ANSWER_MARK))
             => (pc' = "Aborted" /\ NoRequest)
       /\ pc = "Aborted" => (pc' = "Aborted" /\ NoRequest)]_vars

\* the session aborted on "I am thinking..." after one recorded tool call
C3_Witness ==
    /\ pc = "Aborted"
    /\ caught = ""
    /\ response_text = Thinking
    /\ iteration = 1
    /\ tool_calls = 1

\* recipients a model may put in the first parameter
ModelRecipients == {<<>>, RecipientX, RecipientQ, RecipientAB, RecipientEnv}

\* C4: the to_address mapped for email_ascii_image and for
\* send_email_with_attachment is the configured recipient, whatever the
\* number and the values of the parameters, and the same call with any
\* other first parameter maps to the same to_address.
C4_RecipientIsConfigured ==
    func_name \in EmailTools
        => /\ "to_address" \in DOMAIN arguments
           /\ arguments.to_address = recipient_email
           /\ params # <<>>
                 => \A r \in ModelRecipients :
                        LET other == MapArguments(func_name,
                                                  [params EXCEPT ![1] = r],
                                                  user_input, recipient_email,
                                                  files).arguments
                        IN  other.to_address = arguments.to_address

\* email_ascii_image called with subject, body and a recipient that is not
\* the configured one
C4_Witness ==
    /\ pc = "Dispatching"
    /\ func_name = email_ascii_image
    /\ Len(params) >= 3
    /\ params[1] = RecipientX
    /\ recipient_email = RecipientAB
    /\ arguments.to_address = RecipientAB

\* C5: the transcript holds one entry per tool call that returned, for
\* every shape of tool result.
C5_TranscriptCountsReturns ==
    Len(iteration_response) = tool_returns

\* C6: an error caught in a turn ends the session in that turn with no
\* request issued, and once an error is caught nothing is requested again.
C6_NothingRetried ==
    [][/\ caught' # caught => (pc' = "Aborted" /\ NoRequest)
       /\ caught # "" => (pc' = "Aborted" /\ caught' = caught /\ NoRequest)]_vars

\* the tool call of the second turn raised
C6_Witness ==
    /\ pc = "Aborted"
    /\ caught = "ToolError"
    /\ iteration = 1
    /\ generations = 2
    /\ tool_calls = 2

\* C7 as stated: each single-argument tool binds its argument to the
\* first parameter, ascii_exp_sum included.
C7_FirstParameterAsIs ==
    /\ (func_name = ascii_exp_sum /\ params # <<>>)
          => arguments = [input_string |-> params[1]]
    /\ (func_name = add_text_in_paint /\ params # <<>>)
          => arguments = [text |-> params[1]]
    /\ (func_name = save_paint_file /\ params # <<>>)
          => arguments = [filename |-> params[1]]

\* C7 amended: add_text_in_paint and save_paint_file bind their own
\* argument name to the first parameter when one is supplied;
\* ascii_exp_sum binds input_string to the collected input string,
\* whatever parameters the model supplied.
C7_SingleArgumentTools ==
    /\ func_name = ascii_exp_sum
          => arguments = [input_string |-> user_input]
    /\ (func_name = add_text_in_paint /\ params # <<>>)
          => arguments = [text |-> params[1]]
    /\ (func_name = save_paint_file /\ params # <<>>)
          => arguments = [filename |-> params[1]]

\* ascii_exp_sum called with a parameter that is not the collected string
C7_Witness ==
    /\ pc = "Dispatching"
    /\ func_name = ascii_exp_sum
    /\ params = <<Yo>>
    /\ user_input = Hi
    /\ arguments = [input_string |-> Hi]

\* C8: draw_rectangle with four or more parameters maps x1, y1, x2, y2 to
\* the integer values of the first four, in order; if one of them is no
\* integer the turn is fatal: no tool call, no transcript entry, the
\* counter not advanced, the session Aborted.
C8_DrawRectangle ==
    [][(/\ ResponseArrives
        /\ StartsWith(response_text', FUNCTION_CALL_MARK)
        /\ func_name' = draw_rectangle
        /\ Len(params') >= 4)
          => /\ IF \A i \in 1..4 : IsIntLiteral(params'[i])
                THEN /\ arguments' = [x1 |-> IntValue(params'[1]),
                                      y1 |-> IntValue(params'[2]),
                                      x2 |-> IntValue(params'[3]),
                                      y2 |-> IntValue(params'[4])]
                     /\ pc' = "Dispatching"
                     /\ tool_calls' = tool_calls + 1
                ELSE /\ pc' = "Aborted"
                     /\ NoRequest
                     /\ iteration_response' = iteration_response
                     /\ iteration' = iteration
             /\ response_text' = Strip(CallRect)
                   => arguments' = [x1 |-> 476, y1 |-> 274,
                                    x2 |-> 676, y2 |-> 374]
             /\ response_text' = Strip(CallRectSigned)
                   => arguments' = [x1 |-> 0 - 5, y1 |-> 7, x2 |-> 10, y2 |-> 9]
             /\ response_text' \in {Strip(CallRectBadInt), Strip(CallRectEmptyInt)}
                   => pc' = "Aborted"]_vars

\* the second turn's draw_rectangle had a parameter that is no integer
C8_Witness ==
    /\ pc = "Aborted"
    /\ caught = "ValueError"
    /\ func_name = draw_rectangle
    /\ Len(params) = 4
    /\ iteration = 1
    /\ Len(iteration_response) = 1
    /\ tool_calls = 1

\* C9: mapping send_email_with_attachment never raises and yields a
\* non-empty attachment_path; with a filename it is the first of the
\* candidates (working directory, Assignment/, Session4/Assignment/) that
\* exists, and the absolute path of the filename if none does.
C9_AttachmentPath ==
    func_name = send_email_with_attachment
        => /\ caught # "ValueError"
           /\ "attachment_path" \in DOMAIN arguments
           /\ arguments.attachment_path # <<>>
           /\ Len(params) >= 4
                 => LET c == Candidates(params[4])
                        found == {i \in 1..3 : Exists(c[i], files)}
                    IN  IF found = {}
                        THEN arguments.attachment_path = AbsPath(params[4])
                        ELSE \E i \in found :
                                /\ \A j \in found : i <= j
                                /\ arguments.attachment_path = c[i]

\* an empty filename while no candidate exists: the working directory
C9_Witness ==
    /\ pc = "Dispatching"
    /\ func_name = send_email_with_attachment
    /\ Len(params) = 4
    /\ params[4] = <<>>
    /\ files = {}
    /\ arguments.attachment_path = Cwd

KnownTools ==
    {ascii_exp_sum, open_paint, draw_rectangle, add_text_in_paint,
     save_paint_file, email_ascii_image, send_email_with_attachment}

\* C10: a FUNCTION_CALL naming none of the known tools maps to the empty
\* arguments and the tool call is issued once with that name; a result
\* the provider returns for it is appended to the transcript like any
\* other.
C10_UnknownToolStillInvoked ==
    [][/\ (/\ ResponseArrives
           /\ StartsWith(response_text', FUNCTION_CALL_MARK)
           /\ func_name' \notin KnownTools)
             => /\ arguments' = NoArguments
                /\ pc' = "Dispatching"
                /\ tool_calls' = tool_calls + 1
       /\ (/\ pc = "Dispatching"
           /\ func_name \notin KnownTools
           /\ pc' = "Accumulating")
             => /\ Len(iteration_response') = Len(iteration_response) + 1
                /\ SubSeq(iteration_response', 1, Len(iteration_response))
                      = iteration_response
                /\ iteration_response'[Len(iteration_response')].toolName
                      = func_name
                /\ tool_calls' = tool_calls]_vars

\* the result of a call to the unknown tool foo is in the transcript
C10_Witness ==
    /\ pc = "Accumulating"
    /\ func_name = <<"f", "o", "o">>
    /\ arguments = NoArguments
    /\ tool_calls = 1
    /\ iteration_response[1].toolName = <<"f", "o", "o">>

\* the text after the marker, which ends at the first colon
Payload(text) == SubSeq(text, Len(FUNCTION_CALL_MARK) + 1, Len(text))

\* the number of pipes in s
Pipes(s) == Cardinality({i \in 1..Len(s) : s[i] = "|"})

NeitherBlankNorPipe(c) == c \notin Whitespace \cup {"|"}

\* s without its whitespace and its pipes
Squeeze(s) == SelectSeq(s, NeitherBlankNorPipe)

RECURSIVE Concat(_)
Concat(fields) ==
    IF fields = <<>> THEN <<>> ELSE Head(fields) \o Concat(Tail(fields))

\* C11: of a response starting with FUNCTION_CALL: the name and the
\* parameters are the pipe-separated fields of the text after the first
\* colon: one more than the payload has pipes, each trimmed and free of
\* pipes, together all of the payload's other characters in order (later
\* colons included); parsing the response again gives the same directive.
C11_FieldsMatchPayload ==
    StartsWith(response_text, FUNCTION_CALL_MARK)
        => LET payload == Payload(response_text)
               parts == <<func_name>> \o params
           IN  /\ Len(parts) = Pipes(payload) + 1
               /\ \A i \in 1..Len(parts) :
                     /\ parts[i] = Strip(parts[i])
                     /\ Pipes(parts[i]) = 0
               /\ Squeeze(Concat(parts)) = Squeeze(payload)
               /\ ParseFunctionCall(response_text)
                     = [func_name |-> func_name, params |-> params]

\* a parameter holding a colon, and it is the only parameter
C11_Witness ==
    /\ pc = "Dispatching"
    /\ response_text = CallAddTextColon
    /\ func_name = add_text_in_paint
    /\ params = << <<"a", ":", "b">> >>

\* the loop is inside a pass
InPass == pc \in {"AwaitingGeneration", "Dispatching", "Accumulating"}

\* C13: iteration starts at 0 and stays within 0..max_iterations; it
\* changes only by the loop going round after an accumulation, then by
\* exactly one, so that inside a pass it is the number of passes completed
\* before.
C13_IterationCounter ==
    /\ iteration = 0
    /\ [](iteration \in 0..max_iterations)
    /\ [](InPass => generations = iteration + 1)
    /\ [][/\ iteration' \in {iteration, iteration + 1}
          /\ iteration' # iteration => pc = "Accumulating"
          /\ (pc = "Accumulating" /\ pc' \in {"AwaitingGeneration", "Finished"})
                => iteration' = iteration + 1]_vars

\* the fourth pass has begun
C13_Witness ==
    /\ pc = "AwaitingGeneration"
    /\ iteration = 3
    /\ generations = 4

\* C18: the transcript only grows, by one entry at its end; the k-th
\* entry carries index k; when a pass has issued its generation request
\* the transcript is as long as the counter says and the prompt of the
\* request holds all its entries in order.
C18_TranscriptAppendOnly ==
    /\ [](\A k \in 1..Len(iteration_response) :
              iteration_response[k].iterationIndex = k)
    /\ [](pc = "AwaitingGeneration"
              => /\ Len(iteration_response) = iteration
                 /\ prompt.steps = iteration_response)
    /\ [][iteration_response' # iteration_response
              => /\ Len(iteration_response') = Len(iteration_response) + 1
                 /\ SubSeq(iteration_response', 1, Len(iteration_response))
                       = iteration_response]_vars

\* the third pass asks with the results of ascii_exp_sum and open_paint
C18_Witness ==
    /\ pc = "AwaitingGeneration"
    /\ Len(iteration_response) = 2
    /\ iteration_response[1].toolName = ascii_exp_sum
    /\ iteration_response[2].toolName = open_paint
    /\ prompt.form = "history"
    /\ prompt.steps = iteration_response

\* the number of parameters below which an email tool gets the defaults
RequiredParams(name) == IF name = email_ascii_image THEN 3 ELSE 4

\* C19: a call of an email tool with fewer parameters than the tool needs
\* (3 for email_ascii_image, 4 for send_email_with_attachment) is issued
\* with the default subject and the default body, whatever parameters
\* were supplied; with enough parameters the subject and the body are the
\* second and the third parameter.
C19_EmailDefaults ==
    [][(/\ ResponseArrives
        /\ StartsWith(response_text', FUNCTION_CALL_MARK)
        /\ func_name' \in EmailTools)
          => /\ pc' = "Dispatching"
             /\ tool_calls' = tool_calls + 1
             /\ IF Len(params') < RequiredParams(func_name')
                THEN /\ arguments'.subject = DefaultSubject
                     /\ arguments'.body = DefaultBody(user_input)
                ELSE /\ arguments'.subject = params'[2]
                     /\ arguments'.body = params'[3]]_vars

\* send_email_with_attachment called with three parameters
C19_Witness ==
    /\ pc = "Dispatching"
    /\ response_text = CallSendThree
    /\ func_name = send_email_with_attachment
    /\ Len(params) = 3
    /\ params[2] # DefaultSubject
    /\ arguments.subject = DefaultSubject
    /\ arguments.body = DefaultBody(user_input)
    /\ tool_calls = 1

\* the calls whose branch at lines 261-275 assigns nothing to arguments
TooFewParams(name, ps) ==
    \/ name = draw_rectangle /\ Len(ps) < 4
    \/ name \in {add_text_in_paint, save_paint_file} /\ ps = <<>>

\* C20: draw_rectangle with fewer than four parameters, and
\* add_text_in_paint or save_paint_file with none, raise nothing in the
\* loop: the arguments are the empty mapping, the tool is invoked once
\* with them, and when the provider returns the turn goes on to
\* accumulation.
C20_TooFewParamsTolerated ==
    [][/\ (/\ ResponseArrives
           /\ StartsWith(response_text', FUNCTION_CALL_MARK)
           /\ TooFewParams(func_name', params'))
             => /\ arguments' = NoArguments
                /\ tool_calls' = tool_calls + 1
                /\ pc' = "Dispatching"
                /\ caught' = caught
       /\ (/\ pc = "Dispatching"
           /\ TooFewParams(func_name, params)
           /\ tool_returns' = tool_returns + 1)
             => /\ pc' = "Accumulating"
                /\ tool_calls' = tool_calls
                /\ arguments' = NoArguments
                /\ Len(iteration_response') = Len(iteration_response) + 1
                /\ iteration_response'[Len(iteration_response')].toolName
                      = func_name]_vars

\* C14: when the deadline of a generation request expires first the
\* session aborts in that turn: no request is issued in that turn or
\* later, the locals of the last parsed response, the transcript and the
\* counter stay as they were, and the end of the abandoned call changes
\* nothing but the executor.
C14_TimeoutAborts ==
    [][/\ (pc = "AwaitingGeneration" /\ caught = "" /\ caught' = "TimeoutError")
             => /\ pc' = "Aborted"
                /\ executor' = "abandoned"
                /\ NoRequest
                /\ UNCHANGED <<turn, iteration_response, iteration>>
       /\ caught = "TimeoutError"
             => /\ pc' = "Aborted"
                /\ NoRequest
                /\ UNCHANGED <<turn, iteration_response, iteration>>
       /\ (executor = "abandoned" /\ executor' # "abandoned")
             => /\ NoRequest
                /\ UNCHANGED <<pc, turn, iteration_response, iteration>>]_vars

\* the third generation request timed out and its call ended later
C14_Witness ==
    /\ pc = "Aborted"
    /\ caught = "TimeoutError"
    /\ executor = "idle"
    /\ generations = 3
    /\ tool_calls = 2
    /\ iteration = 2
    /\ Len(iteration_response) = 2

\* the requests awaiting an outcome: the generation call in the executor
\* and the tool calls neither returned nor raised
Outstanding ==
    (IF executor = "idle" THEN 0 ELSE 1)
      + (tool_calls - tool_returns - (IF caught = "ToolError" THEN 1 ELSE 0))

\* C17: at most one request is outstanding; a tool call is issued only by
\* the step that receives the response of the one generation request of
\* its turn, with the name parsed from that response; a generation
\* request is issued only when every earlier tool call has returned and
\* is in the transcript, and after the first only by the end of the pause.
C17_Sequential ==
    /\ [](Outstanding \in {0, 1})
    /\ [][/\ tool_calls' # tool_calls
                => /\ tool_calls' = tool_calls + 1
                   /\ generations' = generations
                   /\ pc = "AwaitingGeneration"
                   /\ executor = "running"
                   /\ executor' = "idle"
                   /\ generations = iteration + 1
                   /\ tool_calls = iteration
                   /\ StartsWith(response_text', FUNCTION_CALL_MARK)
                   /\ func_name' = ParseFunctionCall(response_text').func_name
          /\ generations' # generations
                => /\ generations' = generations + 1
                   /\ tool_calls' = tool_calls
                   /\ executor = "idle"
                   /\ executor' = "running"
                   /\ tool_calls = generations
                   /\ tool_returns = generations
                   /\ Len(iteration_response) = generations
                   /\ \/ pc = "Initializing" /\ generations = 0
                      \/ pc = "Accumulating" /\ iteration' = iteration + 1]_vars

\* the second generation request, issued after the first tool result
C17_Witness ==
    /\ pc = "AwaitingGeneration"
    /\ executor = "running"
    /\ generations = 2
    /\ tool_calls = 1
    /\ tool_returns = 1
    /\ Len(iteration_response) = 1
    /\ iteration = 1

Terminal == {"Finished", "Aborted"}

\* C12: a session that is not interrupted ends in Finished or Aborted,
\* given that every request returns, raises or times out; from Finished
\* and from Aborted the loop is never entered again.
C12_SessionTerminates ==
    /\ (pc = "Connecting") ~> (pc \in Terminal \/ raised = "KeyboardInterrupt")
    /\ [][(pc \in Terminal) => (pc' = pc /\ NoRequest)]_vars

\* a session ended by FINAL_ANSWER in its last pass
C12_Witness ==
    /\ pc = "Finished"
    /\ StartsWith(response_text, FINAL_ANSWER_MARK)
    /\ iteration = max_iterations - 1
    /\ generations = max_iterations
    /\ notice = FALSE

\* C15: the exit status is 1 without the API key, without the provider
\* script and after an uncaught error, and 0 when main() returned after
\* the session ended by FINAL_ANSWER, by an unexpected response, at the
\* cap, or by a caught error.
C15_ExitCodes ==
    process = "Exited"
       => /\ ~api_key => exit_code = 1
          /\ raised \in {"SystemExit", "Exception"} => exit_code = 1
          /\ (pc \in Terminal /\ raised = "") => exit_code = 0

\* the session ended at the cap and an error then escaped main()
C15_Witness ==
    /\ process = "Exited"
    /\ pc = "Finished"
    /\ notice
    /\ raised = "Exception"
    /\ exit_code = 1

\* C16 as stated: the cleanup has run on every path to the exit
C16_CleanupOnEveryPath ==
    process = "Exited" => cleanup_runs >= 1

\* C16: with the API key the cleanup runs twice on every path to the
\* exit, in the finally clause and as exit handler, and without it not at
\* all; each run calls terminate() on every child listed, whichever of
\* them fail; a further run leaves the exit status alone and lists no
\* new child.
C16_CleanupAfterConfiguration ==
    /\ [](process = "Exited" => cleanup_runs = IF api_key THEN 2 ELSE 0)
    /\ [](attempted = Range(children) /\ failed \subseteq attempted)
    /\ [][cleanup_runs' # cleanup_runs
             => /\ cleanup_runs' = cleanup_runs + 1
                /\ cleanup_runs >= 1
                      => /\ exit_code' = exit_code
                         /\ process' = "Exited"
                         /\ Range(children') \subseteq Range(children)]_vars

\* an interrupted run: terminate() failed on the first of two children
\* and the second was still attempted
C16_Witness ==
    /\ process = "Exited"
    /\ raised = "KeyboardInterrupt"
    /\ cleanup_runs = 2
    /\ children = <<"server", "paint">>
    /\ failed = {"server"}
    /\ attempted = {"server", "paint"}

\* C21: the notice of lines 374-375 is printed exactly when the loop
\* ended at the cap, after max_iterations recorded results; a session
\* ended by FINAL_ANSWER, by an unexpected response, by a timeout or by any
\* caught error has not printed it, in whichever pass it ended.
C21_NoticeOnlyAtCap ==
    /\ notice <=> /\ pc = "Finished"
                  /\ iteration = max_iterations
                  /\ tool_returns = max_iterations
                  /\ Len(iteration_response) = max_iterations
    /\ (/\ pc \in Terminal
        /\ \/ StartsWith(response_text, FINAL_ANSWER_MARK)
           \/ pc = "Aborted"
           \/ caught # "")
          => ~notice

\* the generation request of the tenth pass timed out
C21_Witness ==
    /\ pc = "Aborted"
    /\ caught = "TimeoutError"
    /\ iteration = max_iterations - 1
    /\ generations = max_iterations
    /\ Len(iteration_response) = max_iterations - 1
    /\ notice = FALSE

=============================================================================
